---- MODULE Spec2Model ----
(***************************************************************************)
(* Model of the location search widget of src/src/components/SearchBar.tsx *)
(* (component SearchBar).  The widget state is the four useState cells;    *)
(* the events are input changes, key presses, clicks on rendered items,    *)
(* the debounce timer firing, geocoding calls settling and the unmount of   *)
(* the component.  Handlers run to completion, one event at a time.        *)
(* The text transforms of the component (getFlagEmoji, highlightMatch,     *)
(* getLocationDetails) are pure functions of their arguments; they are     *)
(* operators, applied to bounded inputs under the specification SpecText.  *)
(*                                                                         *)
(* The hooks useDebounce and useKeyboardNavigation and the geocoding       *)
(* client searchLocation are imported by SearchBar.tsx but their code is   *)
(* not part of the sources at hand; they are modelled from spec.md         *)
(* (4.1, 4.3, 6).                                                          *)
(***************************************************************************)
EXTENDS Integers, Sequences, FiniteSets, TLC

\* ------------------------------------------------------------------------
\* Bounds of the model
\* ------------------------------------------------------------------------

\* Number of bursts of input events (hence of debounced search invocations).
MaxBursts == 2

\* Granularity of the passage of time, in milliseconds.
TickMs == 100

\* Texts the user can have in the input field, as sequences of characters.
Texts ==
  { <<>>, <<" ">>, <<"a">>, <<"a", "b">> }

\* Result lists the geocoding service can answer with (order is the
\* service's ranking, SearchResults are opaque to the widget).
Responses ==
  { <<>>, <<"r1", "r2">>, <<"r3", "r1", "r2">> }

\* ------------------------------------------------------------------------
\* Program constants
\* ------------------------------------------------------------------------

\* The delay handed to useDebounce.
DelayMs == 300

\* ------------------------------------------------------------------------
\* State
\* ------------------------------------------------------------------------
VARIABLES
  searchQuery,      \* useState('')  : text of the input field
  searchResults,    \* useState([])  : displayed result list
  isLoading,        \* useState(false)
  selectedIndex,    \* useState(-1)  : 0-based index into searchResults
  timer,            \* pending debounce timer: [armed, arg, remaining]
  inflight,         \* geocoding calls not yet settled: set of [id, query]
  issued,           \* number of invocations of the debounced search so far
  latest,           \* outcome of the most recently issued search
  bursts,           \* number of bursts of input events so far
  sinceInput,       \* ms elapsed since the last input event (up to DelayMs)
  superseded,       \* the current burst has cancelled a pending timer
  lastInput,        \* text of the last input event
  selectCalls,      \* arguments of the onLocationSelect calls so far
  lastEvent,        \* the event handled last: [type, id]
  mounted,          \* the component is mounted
  lastCall,         \* id of the most recently issued geocoding call, or 0
  call              \* a call of a text transform: arguments and result

vars ==
  << searchQuery, searchResults, isLoading, selectedIndex, timer, inflight,
     issued, latest, bursts, sinceInput, superseded, lastInput, selectCalls,
     lastEvent, mounted, lastCall, call >>

\* The variables of the widget, without the text transform call.
widgetVars ==
  << searchQuery, searchResults, isLoading, selectedIndex, timer, inflight,
     issued, latest, bursts, sinceInput, superseded, lastInput, selectCalls,
     lastEvent, mounted, lastCall >>

\* ------------------------------------------------------------------------
\* Helpers
\* ------------------------------------------------------------------------
Min(a, b) ==
  IF a <= b THEN a ELSE b

Max(a, b) ==
  IF a >= b THEN a ELSE b

IsSpace(ch) ==
  ch = " "

RECURSIVE TrimStart(_)
TrimStart(s) ==
  IF s = <<>> THEN <<>>
  ELSE IF IsSpace(Head(s)) THEN TrimStart(Tail(s))
  ELSE s

RECURSIVE TrimEnd(_)
TrimEnd(s) ==
  IF s = <<>> THEN <<>>
  ELSE IF IsSpace(s[Len(s)]) THEN TrimEnd(SubSeq(s, 1, Len(s) - 1))
  ELSE s

\* String.prototype.trim
Trim(s) ==
  TrimEnd(TrimStart(s))

\* !query.trim()
IsBlank(query) ==
  Trim(query) = <<>>

NoTimer ==
  [armed |-> FALSE, arg |-> <<>>, remaining |-> 0]

Event(type, id) ==
  [type |-> type, id |-> id]

\* ------------------------------------------------------------------------
\* Initial state: the state after the first render
\* ------------------------------------------------------------------------
WidgetInit ==
  /\ searchQuery = <<>>
  /\ searchResults = <<>>
  /\ isLoading = FALSE
  /\ selectedIndex = -1
  /\ timer = NoTimer
  /\ inflight = {}
  /\ issued = 0
  /\ latest = [resolved |-> TRUE, value |-> <<>>]
  /\ bursts = 0
  /\ sinceInput = DelayMs
  /\ superseded = FALSE
  /\ lastInput = <<>>
  /\ selectCalls = <<>>
  /\ lastEvent = Event("init", 0)
  /\ mounted = TRUE
  /\ lastCall = 0

\* No text transform is being called.
NoCall ==
  [fn |-> "none", done |-> FALSE]

Init ==
  /\ WidgetInit
  /\ call = NoCall

\* ------------------------------------------------------------------------
\* Debounce scheduler (hook useDebounce, spec.md 4.1)
\* ------------------------------------------------------------------------

\* The timer record after a change event.
armedTimer(arg) ==
  [armed |-> TRUE, arg |-> arg, remaining |-> DelayMs]

\* debounced(arg): cancel the pending timer, if any, and arm a new one.
debounced(arg) ==
  timer' = armedTimer(arg)

\* The timer is due: its callback runs now.
TimerDue ==
  timer.armed /\ timer.remaining = 0

\* ------------------------------------------------------------------------
\* Search orchestrator
\* ------------------------------------------------------------------------

\* Argument handleInputChange gives to debouncedSearch: the event's value,
\* not the searchQuery of the render the handler closes over.
staleSearchArg(value) ==
  searchQuery

searchArg(value) ==
  value

\* State updates of a handleInputChange that also clears the list.
inputUpdatesClearList(value) ==
  /\ searchQuery' = value
  /\ selectedIndex' = -1
  /\ searchResults' = <<>>
  /\ UNCHANGED isLoading

\* State updates of handleInputChange: setSearchQuery, setSelectedIndex.
inputUpdates(value) ==
  /\ searchQuery' = value
  /\ selectedIndex' = -1
  /\ UNCHANGED << searchResults, isLoading >>

\* handleInputChange: the input's change event with text `value`.
\* A change event that finds no pending timer opens a new burst.  Events
\* are handled in the order of their times: a timer that is due runs its
\* callback before a change event of the same instant is handled.
handleInputChange(value) ==
  /\ mounted
  /\ ~TimerDue
  /\ timer.armed \/ bursts < MaxBursts
  /\ inputUpdates(value)
  /\ debounced(searchArg(value))
  /\ bursts' = IF timer.armed THEN bursts ELSE bursts + 1
  /\ sinceInput' = 0
  /\ superseded' = timer.armed
  /\ lastInput' = value
  /\ lastEvent' = Event("input", 0)
  /\ UNCHANGED call
  /\ UNCHANGED << inflight, issued, latest, selectCalls, mounted,
                  lastCall >>

\* Time passes while a debounce timer is pending, never beyond its deadline.
Tick ==
  /\ timer.armed
  /\ timer.remaining > 0
  /\ LET step == Min(TickMs, timer.remaining)
     IN  /\ timer' = [timer EXCEPT !.remaining = @ - step]
         /\ sinceInput' = Min(sinceInput + step, DelayMs)
  /\ lastEvent' = Event("tick", 0)
  /\ UNCHANGED call
  /\ UNCHANGED << searchQuery, searchResults, isLoading, selectedIndex,
                  inflight, issued, latest, bursts, superseded, lastInput,
                  selectCalls, mounted, lastCall >>

\* The callback of useDebounce up to its await: the blank-query short
\* circuit, or setIsLoading(true) and the call of searchLocation(query).
debouncedSearch(query) ==
  IF IsBlank(query)
  THEN /\ searchResults' = <<>>
       /\ latest' = [resolved |-> TRUE, value |-> <<>>]
       /\ UNCHANGED << isLoading, inflight, lastCall >>
  ELSE /\ isLoading' = TRUE
       /\ inflight' = inflight \cup { [id |-> issued + 1, query |-> query] }
       /\ latest' = [resolved |-> FALSE, value |-> <<>>]
       /\ lastCall' = issued + 1
       /\ UNCHANGED searchResults

\* The debounce timer fires and runs the search with the armed argument.
TimerFire ==
  /\ TimerDue
  /\ debouncedSearch(timer.arg)
  /\ timer' = NoTimer
  /\ issued' = issued + 1
  /\ lastEvent' = Event("fire", issued + 1)
  /\ UNCHANGED call
  /\ UNCHANGED << searchQuery, selectedIndex, bursts, sinceInput, superseded,
                  lastInput, selectCalls, mounted >>

\* A catch branch that leaves the previous list displayed.
catchKeepsResults ==
  /\ UNCHANGED searchResults
  /\ isLoading' = FALSE

\* A try branch without the finally block.
searchResolvedNoFinally(results) ==
  /\ searchResults' = results
  /\ UNCHANGED isLoading

\* try: searchLocation resolved with `results`; finally.
searchResolved(results) ==
  /\ searchResults' = results
  /\ isLoading' = FALSE

\* catch: searchLocation rejected; finally.
searchRejected ==
  /\ searchResults' = <<>>
  /\ isLoading' = FALSE

\* The geocoding call c resolves with the list `results`.
Resolve(c, results) ==
  /\ mounted
  /\ c \in inflight
  /\ searchResolved(results)
  /\ inflight' = inflight \ {c}
  /\ latest' = IF c.id = issued
               THEN [resolved |-> TRUE, value |-> results]
               ELSE latest
  /\ lastEvent' = Event("resolve", c.id)
  /\ UNCHANGED call
  /\ UNCHANGED << searchQuery, selectedIndex, timer, issued, bursts,
                  sinceInput, superseded, lastInput, selectCalls, mounted,
                  lastCall >>

\* The geocoding call c rejects.
Reject(c) ==
  /\ mounted
  /\ c \in inflight
  /\ searchRejected
  /\ inflight' = inflight \ {c}
  /\ latest' = IF c.id = issued
               THEN [resolved |-> TRUE, value |-> <<>>]
               ELSE latest
  /\ lastEvent' = Event("reject", c.id)
  /\ UNCHANGED call
  /\ UNCHANGED << searchQuery, selectedIndex, timer, issued, bursts,
                  sinceInput, superseded, lastInput, selectCalls, mounted,
                  lastCall >>

\* handleSelectResult without setSearchQuery('').
handleSelectResultKeepsQuery(result) ==
  /\ selectCalls' = Append(selectCalls, result)
  /\ searchResults' = <<>>
  /\ UNCHANGED searchQuery
  /\ selectedIndex' = -1

\* handleSelectResult: commit of `result`.
handleSelectResult(result) ==
  /\ selectCalls' = Append(selectCalls, result)
  /\ searchResults' = <<>>
  /\ searchQuery' = <<>>
  /\ selectedIndex' = -1

\* ------------------------------------------------------------------------
\* Selection state machine (hook useKeyboardNavigation, spec.md 4.3)
\* ------------------------------------------------------------------------

\* An item count that is one too large.
itemCountOffByOne ==
  Len(searchResults) + 1

\* itemCount: searchResults.length
itemCount ==
  Len(searchResults)

\* The item at the 0-based index i of the displayed list.
resultAt(i) ==
  searchResults[i + 1]

\* An onSelect that only checks the lower end of the range.
onSelectNoUpperCheck ==
  IF selectedIndex >= 0
  THEN handleSelectResult(IF selectedIndex < Len(searchResults)
                          THEN resultAt(selectedIndex)
                          ELSE "undefined")
  ELSE UNCHANGED << searchQuery, searchResults, selectedIndex, selectCalls >>

\* onSelect handed to useKeyboardNavigation.
onSelect ==
  IF selectedIndex >= 0 /\ selectedIndex < Len(searchResults)
  THEN handleSelectResult(resultAt(selectedIndex))
  ELSE UNCHANGED << searchQuery, searchResults, selectedIndex, selectCalls >>

\* An onEscape that clears the list and keeps the selection.
onEscapeKeepsIndex ==
  /\ searchResults' = <<>>
  /\ UNCHANGED selectedIndex

\* onEscape handed to useKeyboardNavigation.
onEscape ==
  /\ searchResults' = <<>>
  /\ selectedIndex' = -1

\* ArrowDown of the hook: forward, clamped at the last item.
arrowDown(index, count) ==
  Min(index + 1, count - 1)

\* ArrowUp of the hook: backward, clamped at the first item; -1 stays.
arrowUp(index, count) ==
  IF index >= 0 THEN Max(index - 1, 0) ELSE index

\* handleKeyDown of the hook; every key is a no-op on an empty list.
handleKeyDown(key) ==
  /\ mounted
  /\ lastEvent' = Event(key, selectedIndex)
  /\ UNCHANGED call
  /\ UNCHANGED << isLoading, timer, inflight, issued, latest, bursts,
                  sinceInput, superseded, lastInput, mounted, lastCall >>
  /\ IF itemCount = 0
     THEN UNCHANGED << searchQuery, searchResults, selectedIndex,
                       selectCalls >>
     ELSE CASE key = "ArrowDown" ->
                 /\ selectedIndex' = arrowDown(selectedIndex, itemCount)
                 /\ UNCHANGED << searchQuery, searchResults, selectCalls >>
            [] key = "ArrowUp" ->
                 /\ selectedIndex' = arrowUp(selectedIndex, itemCount)
                 /\ UNCHANGED << searchQuery, searchResults, selectCalls >>
            [] key = "Enter" ->
                 onSelect
            [] key = "Escape" ->
                 /\ onEscape
                 /\ UNCHANGED << searchQuery, selectCalls >>

KeyArrowDown ==
  handleKeyDown("ArrowDown")

KeyArrowUp ==
  handleKeyDown("ArrowUp")

KeyEnter ==
  handleKeyDown("Enter")

KeyEscape ==
  handleKeyDown("Escape")

\* ------------------------------------------------------------------------
\* Presentation binding
\* ------------------------------------------------------------------------

\* An onClick that always commits the first item.
onClickFirstItem(index) ==
  handleSelectResult(resultAt(0))

\* An onClick that selects the item and does not commit it.
onClickSelectsOnly(index) ==
  /\ selectedIndex' = index
  /\ UNCHANGED << searchQuery, searchResults, selectCalls >>

\* onClick of the button rendered for the item at `index`.
onClick(index) ==
  handleSelectResult(resultAt(index))

\* A click on the item rendered at the 0-based `index`.
Click(index) ==
  /\ mounted
  /\ index \in 0 .. Len(searchResults) - 1
  /\ onClick(index)
  /\ lastEvent' = Event("click", index)
  /\ UNCHANGED call
  /\ UNCHANGED << isLoading, timer, inflight, issued, latest, bursts,
                  sinceInput, superseded, lastInput, mounted, lastCall >>

\* ------------------------------------------------------------------------
\* Teardown
\* ------------------------------------------------------------------------

\* A teardown that leaves the pending debounce timer armed.
keepTimerOnTeardown ==
  UNCHANGED timer

\* Cleanup of useDebounce on teardown: the pending timer is cancelled.
cancelOnTeardown ==
  timer' = NoTimer

\* The component is unmounted; its DOM events stop.
Unmount ==
  /\ mounted
  /\ mounted' = FALSE
  /\ cancelOnTeardown
  /\ lastEvent' = Event("unmount", 0)
  /\ UNCHANGED call
  /\ UNCHANGED << searchQuery, searchResults, isLoading, selectedIndex,
                  inflight, issued, latest, bursts, sinceInput, superseded,
                  lastInput, selectCalls, lastCall >>

\* The geocoding call c settles after the unmount: the state updates of
\* the try, catch and finally branches address a component that is gone
\* and are dropped.
SettleUnmounted(c) ==
  /\ ~mounted
  /\ c \in inflight
  /\ inflight' = inflight \ {c}
  /\ lastEvent' = Event("settle-unmounted", c.id)
  /\ UNCHANGED call
  /\ UNCHANGED << searchQuery, searchResults, isLoading, selectedIndex,
                  timer, issued, latest, bursts, sinceInput, superseded,
                  lastInput, selectCalls, mounted, lastCall >>

\* ------------------------------------------------------------------------
\* Specification
\* ------------------------------------------------------------------------
Next ==
  \/ \E value \in Texts : handleInputChange(value)
  \/ Tick
  \/ TimerFire
  \/ \E c \in inflight, results \in Responses : Resolve(c, results)
  \/ \E c \in inflight : Reject(c)
  \/ KeyArrowDown
  \/ KeyArrowUp
  \/ KeyEnter
  \/ KeyEscape
  \/ \E index \in 0 .. Len(searchResults) - 1 : Click(index)
  \/ Unmount
  \/ \E c \in inflight : SettleUnmounted(c)

Spec ==
  Init /\ [][Next]_vars

\* ------------------------------------------------------------------------
\* Properties
\* ------------------------------------------------------------------------

\* The step is the settling (resolution or rejection) of a geocoding call.
Settles ==
  lastEvent'.type \in {"resolve", "reject"}

\* The step is a run of the debounced search.
SearchRuns ==
  lastEvent'.type = "fire"

\* The step is a commit: a click on an item, or Enter on a valid index.
Commits ==
  \/ lastEvent'.type = "click"
  \/ /\ lastEvent'.type = "Enter"
     /\ itemCount > 0
     /\ selectedIndex >= 0
     /\ selectedIndex < Len(searchResults)

\* C1: stale responses are discarded.  When a geocoding call settles after
\* a later search was issued, searchResults does not change; when the call
\* of the most recently issued search settles, searchResults is its
\* response (the empty list on failure).
C1_StaleResponsesDiscarded ==
  [][ Settles =>
        IF lastEvent'.id < issued
        THEN searchResults' = searchResults
        ELSE searchResults' = latest'.value ]_vars

\* C3: in every reachable state -1 <= selectedIndex <= results.length - 1.
C3_SelectedIndexInRange ==
  /\ -1 <= selectedIndex
  /\ selectedIndex <= Len(searchResults) - 1

\* C4: right after every event that replaces or clears the result list (a
\* response applied, a failure, a blank-query search, Escape on a displayed
\* list, a commit) selectedIndex is -1.
C4_SelectionResetOnListChange ==
  [][ ( \/ Settles
        \/ SearchRuns /\ IsBlank(timer.arg)
        \/ lastEvent'.type = "Escape" /\ itemCount > 0
        \/ Commits )
      => selectedIndex' = -1 ]_vars

\* C5: a debounced search that runs with a blank text issues no geocoding
\* call, and when it returns searchResults is empty and isLoading is false.
C5_BlankQueryShortCircuit ==
  [][ (SearchRuns /\ IsBlank(timer.arg))
      => /\ inflight' = inflight
         /\ searchResults' = <<>>
         /\ isLoading' = FALSE ]_vars

\* Timers armed and not yet fired or cancelled.
PendingTimers ==
  IF timer.armed THEN 1 ELSE 0

\* C2: debounce.  The search function runs once per burst of input events:
\* every run happens a full DelayMs after the last input event and gets the
\* text of that event (a blank text issues no geocoding call, any other
\* text issues exactly one call carrying it), and while the component is
\* mounted every burst has either run the search once or still has its one
\* timer pending, so a timer superseded by a later input never runs its
\* callback.
C2_Debounce ==
  /\ [][ issued' # issued =>
           /\ issued' = issued + 1
           /\ SearchRuns
           /\ sinceInput = DelayMs
           /\ timer.arg = lastInput
           /\ inflight' = IF IsBlank(lastInput)
                          THEN inflight
                          ELSE inflight \cup
                                 { [id |-> issued', query |-> lastInput] } ]_vars
  /\ [](mounted => issued + PendingTimers = bursts)

\* C2 witness: the search has run for a burst of several input events, one
\* of which superseded a pending timer.
C2_Witness ==
  /\ lastEvent.type = "fire"
  /\ superseded
  /\ inflight = { [id |-> issued, query |-> lastInput] }

\* C6: right after a commit searchQuery is the empty string, searchResults
\* is empty and selectedIndex is -1.
C6_CommitResetsState ==
  [][ Commits =>
        /\ searchQuery' = <<>>
        /\ searchResults' = <<>>
        /\ selectedIndex' = -1 ]_vars

\* C6 witness: a commit has just been made while the debounce timer of a
\* non-blank input was pending; the query is empty again.
C6_Witness ==
  /\ lastEvent.type \in {"click", "Enter"}
  /\ selectCalls # <<>>
  /\ timer.armed
  /\ ~IsBlank(timer.arg)
  /\ searchQuery = <<>>

\* C7: a click on the item at index i calls onLocationSelect once with the
\* item displayed at i, Enter on a valid index calls it once with the item
\* at selectedIndex, and no other event calls it.
C7_CallbackOncePerCommit ==
  [][ IF lastEvent'.type = "click"
      THEN selectCalls' = Append(selectCalls, searchResults[lastEvent'.id + 1])
      ELSE IF Commits
      THEN selectCalls' = Append(selectCalls, searchResults[selectedIndex + 1])
      ELSE selectCalls' = selectCalls ]_vars

\* C7 witness: the last item of a list of three has been committed by a
\* click, after an earlier commit.
C7_Witness ==
  /\ lastEvent = Event("click", 2)
  /\ Len(selectCalls) = 2
  /\ selectCalls[2] = "r2"

\* C8: on a non-empty list ArrowDown sets selectedIndex to
\* min(index + 1, resultCount - 1), ArrowUp sets it to max(index - 1, 0)
\* when it is >= 0 and leaves -1 alone; neither key changes searchQuery,
\* searchResults or isLoading.
C8_ArrowsClamped ==
  [][ (lastEvent'.type \in {"ArrowDown", "ArrowUp"} /\ Len(searchResults) > 0)
      => /\ lastEvent'.type = "ArrowDown" =>
              selectedIndex' = Min(selectedIndex + 1, Len(searchResults) - 1)
         /\ lastEvent'.type = "ArrowUp" =>
              selectedIndex' = IF selectedIndex >= 0
                               THEN Max(selectedIndex - 1, 0)
                               ELSE -1
         /\ UNCHANGED << searchQuery, searchResults, isLoading >> ]_vars

\* C8 witness: ArrowDown was pressed on the last of three items and the
\* index stayed there.
C8_Witness ==
  /\ lastEvent = Event("ArrowDown", 2)
  /\ Len(searchResults) = 3
  /\ selectedIndex = 2

\* C9: Enter with 0 <= selectedIndex < results.length commits
\* results[selectedIndex]; any other Enter changes no state and does not
\* call onLocationSelect.
C9_EnterCommitsValidOnly ==
  [][ lastEvent'.type = "Enter" =>
        IF selectedIndex >= 0 /\ selectedIndex < Len(searchResults)
        THEN /\ selectCalls' = Append(selectCalls, searchResults[selectedIndex + 1])
             /\ searchQuery' = <<>>
             /\ searchResults' = <<>>
             /\ selectedIndex' = -1
             /\ UNCHANGED << isLoading, timer, inflight >>
        ELSE UNCHANGED << searchQuery, searchResults, isLoading,
                          selectedIndex, timer, inflight, selectCalls >> ]_vars

\* C9 witness: Enter was pressed with selectedIndex beyond the end of a
\* displayed list and nothing was committed.
C9_Witness ==
  /\ lastEvent = Event("Enter", 2)
  /\ Len(searchResults) = 2
  /\ selectedIndex = 2
  /\ selectCalls = <<>>

\* C10: when a geocoding call rejects, searchResults becomes empty and
\* isLoading false, and the handler touches nothing else: the query, the
\* selection, the pending timer and the other calls in flight are as
\* before, so input, key and click events keep being handled.
C10_FailureDegradesToEmpty ==
  [][ lastEvent'.type = "reject" =>
        /\ searchResults' = <<>>
        /\ isLoading' = FALSE
        /\ \E c \in inflight : c.id = lastEvent'.id /\ inflight' = inflight \ {c}
        /\ UNCHANGED << searchQuery, selectedIndex, timer, selectCalls >> ]_vars

\* C10 witness: a call has just rejected while the debounce timer of a
\* later input was pending; the list is empty, the loading flag is off and
\* the timer is still armed with the text of that input.
C10_Witness ==
  /\ lastEvent.type = "reject"
  /\ searchResults = <<>>
  /\ ~isLoading
  /\ timer.armed
  /\ timer.arg = searchQuery
  /\ searchQuery # <<>>

\* C11: teardown safety.  Once the component is unmounted the search
\* function is not invoked and no geocoding call is issued (a debounce
\* timer pending at the unmount never fires), and a geocoding call that
\* settles changes no widget state.
C11_TeardownSafety ==
  [][ ~mounted =>
        /\ issued' = issued
        /\ inflight' \subseteq inflight
        /\ ~timer'.armed
        /\ UNCHANGED << searchQuery, searchResults, isLoading, selectedIndex,
                        selectCalls, mounted >> ]_vars

\* C11 witness: the component was unmounted with a debounce timer pending
\* (its burst never ran the search) and a geocoding call in flight, which
\* has since settled.
C11_Witness ==
  /\ ~mounted
  /\ lastEvent.type = "settle-unmounted"
  /\ bursts = issued + 1
  /\ isLoading
  /\ inflight = {}

\* The widget after selectedIndex was set to i and Enter was pressed,
\* against the widget before.
SelectThenEnter(i) ==
  IF i >= 0 /\ i < Len(searchResults)
  THEN /\ selectCalls' = Append(selectCalls, searchResults[i + 1])
       /\ searchQuery' = <<>>
       /\ searchResults' = <<>>
       /\ selectedIndex' = -1
       /\ UNCHANGED isLoading
  ELSE UNCHANGED << searchQuery, searchResults, selectedIndex, isLoading,
                    selectCalls >>

\* C12: a click on the item rendered at index i leaves the widget (query,
\* results, selectedIndex, loading) and the callback calls as selecting
\* index i and pressing Enter does; and Enter on a valid selectedIndex is
\* a step of the click handler of the item at that index.
C12_ClickIsSelectThenEnter ==
  /\ [][ lastEvent'.type = "click" => SelectThenEnter(lastEvent'.id) ]_vars
  /\ [][ ( /\ lastEvent'.type = "Enter"
           /\ selectedIndex >= 0
           /\ selectedIndex < Len(searchResults) )
         => onClick(selectedIndex) /\ UNCHANGED isLoading ]_vars

\* C12 witness: the second item of a list was committed by a click while a
\* search was in flight.
C12_Witness ==
  /\ lastEvent = Event("click", 1)
  /\ selectCalls = << "r2" >>
  /\ isLoading
  /\ selectedIndex = -1

\* C13: Escape on a displayed list empties searchResults and sets
\* selectedIndex to -1; searchQuery and isLoading are unchanged and
\* onLocationSelect is not called.
C13_EscapeClearsList ==
  [][ (lastEvent'.type = "Escape" /\ Len(searchResults) > 0)
      => /\ searchResults' = <<>>
         /\ selectedIndex' = -1
         /\ UNCHANGED << searchQuery, isLoading, selectCalls >> ]_vars

\* C13 witness: Escape was pressed with an item selected, a non-empty
\* query and a search in flight.
C13_Witness ==
  /\ lastEvent.type = "Escape"
  /\ lastEvent.id >= 0
  /\ selectedIndex = -1
  /\ searchResults = <<>>
  /\ searchQuery # <<>>
  /\ isLoading

\* C17: a change event with text `value` sets searchQuery to value and
\* selectedIndex to -1 and arms the debounce timer with value and the full
\* delay; searchResults and isLoading are unchanged, no search is invoked
\* and onLocationSelect is not called.
C17_InputFrame ==
  [][ lastEvent'.type = "input" =>
        /\ searchQuery' = lastInput'
        /\ selectedIndex' = -1
        /\ timer' = [armed |-> TRUE, arg |-> lastInput', remaining |-> DelayMs]
        /\ UNCHANGED << searchResults, isLoading, inflight, issued,
                        selectCalls >> ]_vars

\* C17 witness: after a change event the previous list is still displayed
\* and an item of it has been selected with ArrowDown while the timer of
\* the new text is pending.
C17_Witness ==
  /\ lastEvent.type = "ArrowDown"
  /\ timer.armed
  /\ timer.arg = <<"a", "b">>
  /\ searchQuery = <<"a", "b">>
  /\ searchResults = << "r1", "r2" >>
  /\ selectedIndex = 1

\* C18: in every state in which searchQuery is blank and no debounce timer
\* is pending, searchResults is empty.
C18_EmptiedWidgetStaysEmpty ==
  (mounted /\ IsBlank(searchQuery) /\ ~timer.armed) => searchResults = <<>>

\* C19: while the component is mounted, isLoading is false whenever no
\* geocoding call is in flight; and, every call settling eventually, a
\* state with isLoading true leads to a state with isLoading false (or to
\* the unmount of the component).
C19_LoadingNeverSticks ==
  /\ []((mounted /\ inflight = {}) => ~isLoading)
  /\ (mounted /\ isLoading) ~> (~isLoading \/ ~mounted)

\* C19 witness: two overlapping calls have both settled and the loading
\* flag is off.
C19_Witness ==
  /\ mounted
  /\ lastEvent = Event("resolve", 1)
  /\ issued = 2
  /\ lastCall = 2
  /\ inflight = {}
  /\ ~isLoading

\* C20: in every state in which the call of the most recently issued
\* non-blank search has not settled yet, isLoading is true.
C20_LoadingCoversLatestSearch ==
  (mounted /\ \E c \in inflight : c.id = lastCall) => isLoading

\* ------------------------------------------------------------------------
\* Specification with fairness: every geocoding call eventually settles
\* ------------------------------------------------------------------------
Settle ==
  \E c \in inflight :
    \/ \E results \in Responses : Resolve(c, results)
    \/ Reject(c)

SpecLive ==
  Spec /\ WF_vars(Settle)

\* ------------------------------------------------------------------------
\* Text transforms: characters
\* ------------------------------------------------------------------------

\* Longest country code, text and query handed to the transforms.
MaxCodeLen == 2

MaxTextLen == 3

MaxQueryLen == 2

\* Longest display name handed to getLocationDetails.
MaxNameLen == 6

\* The characters of the model: letters in both cases, the separator
\* characters of display names and a pattern metacharacter.
Chars ==
  { "a", "A", "b", "B", "z", "Z", " ", ",", "." }

\* charCodeAt(0)
CharCode(ch) ==
  CASE ch = "a" -> 97  [] ch = "A" -> 65
    [] ch = "b" -> 98  [] ch = "B" -> 66
    [] ch = "z" -> 122 [] ch = "Z" -> 90
    [] ch = " " -> 32  [] ch = "," -> 44
    [] ch = "." -> 46

\* String.fromCharCode on the characters of the model.
CharOf(n) ==
  CHOOSE ch \in Chars : CharCode(ch) = n

\* toUpperCase of one character.
ToUpper(ch) ==
  IF CharCode(ch) >= 97 /\ CharCode(ch) <= 122
  THEN CharOf(CharCode(ch) - 32)
  ELSE ch

\* toLowerCase of one character.
ToLower(ch) ==
  IF CharCode(ch) >= 65 /\ CharCode(ch) <= 90
  THEN CharOf(CharCode(ch) + 32)
  ELSE ch

\* String.prototype.toUpperCase
toUpperCase(str) ==
  [i \in 1 .. Len(str) |-> ToUpper(str[i])]

\* String.prototype.toLowerCase
toLowerCase(str) ==
  [i \in 1 .. Len(str) |-> ToLower(str[i])]

\* The strings of at most n characters of the set cs.
StringsUpTo(cs, n) ==
  UNION { [1 .. k -> cs] : k \in 0 .. n }

\* ------------------------------------------------------------------------
\* getFlagEmoji
\* ------------------------------------------------------------------------

\* Offset from a capital letter to its regional indicator symbol.
RegionalIndicatorOffset == 127397

\* A getFlagEmoji that maps the code as given, without toUpperCase.
getFlagEmojiAsGiven(defined, countryCode) ==
  IF ~defined \/ countryCode = <<>>
  THEN <<>>
  ELSE [i \in 1 .. Len(countryCode) |->
          RegionalIndicatorOffset + CharCode(countryCode[i])]

\* getFlagEmoji(countryCode?): the code points of the returned string.
\* `defined` is false for an undefined argument.
getFlagEmoji(defined, countryCode) ==
  IF ~defined \/ countryCode = <<>>
  THEN <<>>
  ELSE [i \in 1 .. Len(toUpperCase(countryCode)) |->
          RegionalIndicatorOffset + CharCode(toUpperCase(countryCode)[i])]

\* ------------------------------------------------------------------------
\* highlightMatch
\* ------------------------------------------------------------------------

\* The characters of the class [.*+?^${}()|[\]\\] of the escaping regex.
IsMeta(ch) ==
  ch \in { ".", "*", "+", "?", "^", "$", "{", "}", "(", ")", "|", "[", "]",
           "\\" }

\* query.replace(/[.*+?^${}()|[\]\\]/g, '\\$&')
RECURSIVE EscapeQuery(_)
EscapeQuery(query) ==
  IF query = <<>> THEN <<>>
  ELSE IF IsMeta(Head(query))
  THEN << "\\", Head(query) >> \o EscapeQuery(Tail(query))
  ELSE << Head(query) >> \o EscapeQuery(Tail(query))

\* new RegExp(`(${escapedQuery})`, 'gi'): the atoms of the group.  An
\* escaped character is a literal, a bare "." matches any character.
RECURSIVE Compile(_)
Compile(pattern) ==
  IF pattern = <<>> THEN <<>>
  ELSE IF Head(pattern) = "\\" /\ Len(pattern) >= 2
  THEN << [kind |-> "lit", ch |-> pattern[2]] >>
         \o Compile(SubSeq(pattern, 3, Len(pattern)))
  ELSE IF Head(pattern) = "."
  THEN << [kind |-> "any", ch |-> "."] >> \o Compile(Tail(pattern))
  ELSE << [kind |-> "lit", ch |-> Head(pattern)] >> \o Compile(Tail(pattern))

\* One atom against one character under the i flag, which compares the
\* characters in capitals.
AtomMatches(atom, ch) ==
  \/ atom.kind = "any"
  \/ ToUpper(atom.ch) = ToUpper(ch)

\* The atoms match the text at position q.
MatchAt(text, atoms, q) ==
  /\ q + Len(atoms) - 1 <= Len(text)
  /\ \A i \in 1 .. Len(atoms) : AtomMatches(atoms[i], text[q + i - 1])

\* text.split(regex) with one capturing group around a pattern that never
\* matches the empty string: plain parts and captured parts alternate.
\* p is the start of the pending plain part, q the position scanned.
RECURSIVE SplitRegex(_, _, _, _)
SplitRegex(text, atoms, p, q) ==
  IF q > Len(text)
  THEN << SubSeq(text, p, Len(text)) >>
  ELSE IF MatchAt(text, atoms, q)
  THEN << SubSeq(text, p, q - 1), SubSeq(text, q, q + Len(atoms) - 1) >>
         \o SplitRegex(text, atoms, q + Len(atoms), q + Len(atoms))
  ELSE SplitRegex(text, atoms, p, q + 1)

\* A tagging that compares the part with the query as they are.
isMatchExact(part, query) ==
  part = query

\* isMatch: part.toLowerCase() === query.toLowerCase()
isMatch(part, query) ==
  toLowerCase(part) = toLowerCase(query)

\* highlightMatch(text, query).  markup is false when the text itself is
\* returned; otherwise parts are the spans, in order, with their tag.
highlightMatch(text, query) ==
  IF IsBlank(query)
  THEN [markup |-> FALSE, parts |-> << [part |-> text, isMatch |-> FALSE] >>]
  ELSE LET parts == SplitRegex(text, Compile(EscapeQuery(query)), 1, 1)
       IN  [markup |-> TRUE,
            parts |-> [i \in 1 .. Len(parts) |->
                         [part |-> parts[i],
                          isMatch |-> isMatch(parts[i], query)]]]

\* ------------------------------------------------------------------------
\* getLocationDetails
\* ------------------------------------------------------------------------

\* The separator of the parts of a display name.
Separator ==
  << ",", " " >>

\* sep occurs in str at position i.
OccursAt(str, sep, i) ==
  /\ i >= 1
  /\ i + Len(sep) - 1 <= Len(str)
  /\ SubSeq(str, i, i + Len(sep) - 1) = sep

\* String.prototype.indexOf, 1-based; 0 when sep does not occur.
RECURSIVE IndexFrom(_, _, _)
IndexFrom(str, sep, i) ==
  IF i + Len(sep) - 1 > Len(str) THEN 0
  ELSE IF OccursAt(str, sep, i) THEN i
  ELSE IndexFrom(str, sep, i + 1)

\* String.prototype.split with a non-empty string separator.
RECURSIVE Split(_, _)
Split(str, sep) ==
  LET i == IndexFrom(str, sep, 1)
  IN  IF i = 0
      THEN << str >>
      ELSE << SubSeq(str, 1, i - 1) >>
             \o Split(SubSeq(str, i + Len(sep), Len(str)), sep)

\* Array.prototype.join
RECURSIVE Join(_, _)
Join(parts, sep) ==
  IF parts = <<>> THEN <<>>
  ELSE IF Len(parts) = 1 THEN parts[1]
  ELSE parts[1] \o sep \o Join(Tail(parts), sep)

\* A getLocationDetails that keeps only the second part.
getLocationDetailsSecondPart(displayName) ==
  LET parts == Split(displayName, Separator)
  IN  [mainText |-> parts[1],
       secondaryText |-> IF Len(parts) > 1 THEN parts[2] ELSE <<>>]

\* getLocationDetails(displayName)
getLocationDetails(displayName) ==
  LET parts == Split(displayName, Separator)
  IN  [mainText |-> parts[1],
       secondaryText |-> Join(Tail(parts), Separator)]

\* ------------------------------------------------------------------------
\* Specification of the text transforms
\* ------------------------------------------------------------------------
CodeLetters ==
  { "a", "A", "b", "B", "z", "Z" }

NameChars ==
  { "a", ",", " " }

HighlightChars ==
  { "a", "A", "b", ".", " " }

\* The calls of the transform fn that are about to be made, one for each
\* choice of the arguments.
Calls(fn, defineds, texts, queries) ==
  { [fn |-> fn, defined |-> d, text |-> t, query |-> q,
     done |-> FALSE, out |-> <<>>] :
      d \in defineds, t \in texts, q \in queries }

InitText ==
  /\ WidgetInit
  /\ call \in
       Calls("getFlagEmoji", BOOLEAN,
             StringsUpTo(CodeLetters, MaxCodeLen), { <<>> })
       \cup
       Calls("getLocationDetails", { TRUE },
             StringsUpTo(NameChars, MaxNameLen), { <<>> })
       \cup
       Calls("highlightMatch", { TRUE },
             StringsUpTo(HighlightChars, MaxTextLen),
             StringsUpTo(HighlightChars, MaxQueryLen))

\* The render calls getFlagEmoji.
CallFlagEmoji ==
  /\ call.fn = "getFlagEmoji"
  /\ ~call.done
  /\ call' = [call EXCEPT !.done = TRUE,
                          !.out = getFlagEmoji(call.defined, call.text)]
  /\ UNCHANGED widgetVars

\* The render calls getLocationDetails on a display name.
CallLocationDetails ==
  /\ call.fn = "getLocationDetails"
  /\ ~call.done
  /\ call' = [call EXCEPT !.done = TRUE,
                          !.out = getLocationDetails(call.text)]
  /\ UNCHANGED widgetVars

\* The render calls highlightMatch on a text of a result.
CallHighlightMatch ==
  /\ call.fn = "highlightMatch"
  /\ ~call.done
  /\ call' = [call EXCEPT !.done = TRUE,
                          !.out = highlightMatch(call.text, call.query)]
  /\ UNCHANGED widgetVars

NextText ==
  \/ CallFlagEmoji
  \/ CallLocationDetails
  \/ CallHighlightMatch

SpecText ==
  InitText /\ [][NextText]_vars

\* The code point of the capital of a letter.
CapitalCode(ch) ==
  IF CharCode(ch) >= 97 THEN CharCode(ch) - 32 ELSE CharCode(ch)

\* C15: for every 2-letter code, in any casing, getFlagEmoji returns two
\* code points, each 127397 plus the code point of the capital of the
\* corresponding letter, the same result as for the code in capitals and
\* in small letters; for an undefined or empty code it returns the empty
\* string.
C15_FlagEmoji ==
  (call.fn = "getFlagEmoji" /\ call.done) =>
     /\ (call.defined /\ Len(call.text) = 2) =>
          /\ Len(call.out) = 2
          /\ \A i \in 1 .. 2 : call.out[i] = 127397 + CapitalCode(call.text[i])
          /\ call.out = getFlagEmoji(TRUE, toUpperCase(call.text))
          /\ call.out = getFlagEmoji(TRUE, toLowerCase(call.text))
     /\ (~call.defined \/ call.text = <<>>) => call.out = <<>>

\* C15 witness: getFlagEmoji was called with a code in mixed case.
C15_Witness ==
  /\ call.fn = "getFlagEmoji"
  /\ call.done
  /\ call.defined
  /\ call.text = << "z", "A" >>
  /\ call.out = << 127487, 127462 >>

\* sep occurs somewhere in str.
Contains(str, sep) ==
  \E i \in 1 .. Len(str) : OccursAt(str, sep, i)

\* C16: getLocationDetails splits at the first ", ".  mainText contains no
\* ", "; when displayName contains ", ", displayName is mainText, ", " and
\* secondaryText in this order; otherwise mainText is displayName and
\* secondaryText is the empty string.
C16_Decompose ==
  (call.fn = "getLocationDetails" /\ call.done) =>
     /\ ~Contains(call.out.mainText, << ",", " " >>)
     /\ IF Contains(call.text, << ",", " " >>)
        THEN call.text =
               call.out.mainText \o << ",", " " >> \o call.out.secondaryText
        ELSE /\ call.out.mainText = call.text
             /\ call.out.secondaryText = <<>>

\* C16 witness: a display name with two separators was decomposed and the
\* second separator is kept in secondaryText.
C16_Witness ==
  /\ call.fn = "getLocationDetails"
  /\ call.done
  /\ call.text = << "a", ",", " ", ",", " ", "a" >>
  /\ call.out = [mainText |-> << "a" >>,
                 secondaryText |-> << ",", " ", "a" >>]

\* The pairs of a small letter and its capital.
CasePairs ==
  { {"a", "A"}, {"b", "B"}, {"z", "Z"} }

\* Two strings are equal up to the case of their letters.
EqualsIgnoringCase(s1, s2) ==
  /\ Len(s1) = Len(s2)
  /\ \A i \in 1 .. Len(s1) : s1[i] = s2[i] \/ {s1[i], s2[i]} \in CasePairs

\* str contains sub up to the case of the letters.
ContainsIgnoringCase(str, sub) ==
  \E i \in 1 .. Len(str) - Len(sub) + 1 :
    EqualsIgnoringCase(SubSeq(str, i, i + Len(sub) - 1), sub)

RECURSIVE Concat(_)
Concat(parts) ==
  IF parts = <<>> THEN <<>> ELSE Head(parts).part \o Concat(Tail(parts))

\* C14: highlightMatch returns the text itself when the trimmed query is
\* empty.  Otherwise it returns spans whose concatenation is the text; a
\* span is tagged as a match exactly when it equals the query up to case,
\* and no other span contains the query up to case.  A "." of the query
\* matches only a "." and the transform never falls back to plain text.
C14_Highlight ==
  (call.fn = "highlightMatch" /\ call.done) =>
     IF Trim(call.query) = <<>>
     THEN call.out =
            [markup |-> FALSE,
             parts |-> << [part |-> call.text, isMatch |-> FALSE] >>]
     ELSE /\ call.out.markup
          /\ Concat(call.out.parts) = call.text
          /\ \A i \in 1 .. Len(call.out.parts) :
               LET span == call.out.parts[i]
               IN  /\ span.isMatch <=> EqualsIgnoringCase(span.part, call.query)
                   /\ ~span.isMatch =>
                        ~ContainsIgnoringCase(span.part, call.query)

\* C14 witness: a query with a "." was highlighted in a text that has it
\* in another case, next to a character a bare "." would also match.
C14_Witness ==
  /\ call.fn = "highlightMatch"
  /\ call.done
  /\ call.text = << "A", ".", "b" >>
  /\ call.query = << "a", "." >>
  /\ call.out.parts = << [part |-> <<>>, isMatch |-> FALSE],
                         [part |-> << "A", "." >>, isMatch |-> TRUE],
                         [part |-> << "b" >>, isMatch |-> FALSE] >>

====
